---- MODULE Spec2Model ----
(***************************************************************************)
(* YouthSync attendance service: POST /attendance, GET /report and         *)
(* GET /export over one SQLite table.  Two programs share the table and    *)
(* the insert/export handlers and differ in get_report:                    *)
(*   "daily"  - src/src/main.rs       (DailyReport, aborts on a bad date)  *)
(*   "weekly" - src/src/main copy.rs  (WeeklyReport, skips a bad date)     *)
(* Text (dates, statuses, keys, CSV rows) is modelled as a sequence of     *)
(* one-character strings so that parsing and formatting are computed.      *)
(***************************************************************************)
EXTENDS Integers, Sequences, FiniteSets

\* ------------------------------------------------------------------ text

DigitChars == <<"0", "1", "2", "3", "4", "5", "6", "7", "8", "9">>

IsDigit(c) == c \in {"0", "1", "2", "3", "4", "5", "6", "7", "8", "9"}

DigitVal(c) ==
    CASE c = "0" -> 0 [] c = "1" -> 1 [] c = "2" -> 2 [] c = "3" -> 3 [] c = "4" -> 4
      [] c = "5" -> 5 [] c = "6" -> 6 [] c = "7" -> 7 [] c = "8" -> 8 [] c = "9" -> 9

\* i32::to_string / "{}" of an integer: decimal digits, "-" for a negative.
RECURSIVE NatToStr(_)
NatToStr(n) ==
    IF n < 10 THEN <<DigitChars[n + 1]>>
    ELSE Append(NatToStr(n \div 10), DigitChars[(n % 10) + 1])

IntToString(n) == IF n < 0 THEN <<"-">> \o NatToStr(0 - n) ELSE NatToStr(n)

\* "{:02}" of an unsigned number: zero-padded to width 2, never truncated.
Pad2(n) == IF n < 10 THEN <<"0">> \o NatToStr(n) ELSE NatToStr(n)

\* ------------------------------------------------------- chrono::NaiveDate

NoDate == [ok |-> FALSE]

IsLeap(y) == (y % 4 = 0 /\ y % 100 # 0) \/ y % 400 = 0

DaysInMonth(y, m) ==
    IF m = 2 THEN (IF IsLeap(y) THEN 29 ELSE 28)
    ELSE IF m \in {4, 6, 9, 11} THEN 30 ELSE 31

\* scan::number: how many digits (at most max) start at position pos.
RECURSIVE CountDigits(_, _, _)
CountDigits(s, pos, max) ==
    IF max = 0 \/ pos > Len(s) \/ ~IsDigit(s[pos]) THEN 0
    ELSE 1 + CountDigits(s, pos + 1, max - 1)

RECURSIVE NumVal(_, _, _)
NumVal(s, pos, n) ==
    IF n = 0 THEN 0
    ELSE 10 * NumVal(s, pos, n - 1) + DigitVal(s[pos + n - 1])

\* NaiveDate::parse_from_str(s, "%Y-%m-%d"): a year of 1..4 digits (any
\* number after an explicit sign), "-", a month of 1..2 digits, "-", a day of
\* 1..2 digits, nothing after it, and the three must name a calendar date.
ParseDate(s) ==
    LET signed == Len(s) >= 1 /\ s[1] \in {"-", "+"}
        ys     == IF signed THEN 2 ELSE 1
        yn     == CountDigits(s, ys, IF signed THEN Len(s) ELSE 4)
        ms     == ys + yn + 1
        mn     == CountDigits(s, ms, 2)
        ds     == ms + mn + 1
        dn     == CountDigits(s, ds, 2)
    IN  IF yn = 0 \/ ms - 1 > Len(s) \/ s[ms - 1] # "-" THEN NoDate
        ELSE IF mn = 0 \/ ds - 1 > Len(s) \/ s[ds - 1] # "-" THEN NoDate
        ELSE IF dn = 0 \/ ds + dn - 1 # Len(s) THEN NoDate
        ELSE LET yv == NumVal(s, ys, yn)
                 y  == IF signed /\ s[1] = "-" THEN 0 - yv ELSE yv
                 m  == NumVal(s, ms, mn)
                 d  == NumVal(s, ds, dn)
             IN  IF m \in 1..12 /\ d >= 1 /\ d <= DaysInMonth(y, m)
                 THEN [ok |-> TRUE, year |-> y, month |-> m, day |-> d]
                 ELSE NoDate

\* The day and the month in each other's place.
FormatDailyDayFirst(date) ==
    Pad2(date.day) \o <<"-">> \o Pad2(date.month) \o <<"-">> \o IntToString(date.year)

\* format!("{:02}-{:02}-{}", date.month(), date.day(), date.year())
FormatDaily(date) ==
    Pad2(date.month) \o <<"-">> \o Pad2(date.day) \o <<"-">> \o IntToString(date.year)

\* format!("{:02}/{:02}/{}", date.month(), date.day(), date.year())
FormatWeekly(date) ==
    Pad2(date.month) \o <<"/">> \o Pad2(date.day) \o <<"/">> \o IntToString(date.year)

\* ------------------------------------------------------------ csv::Writer

Comma == ","
Quote == "\""
NewLine == "\n"

\* QuoteStyle::Necessary: a field is quoted when it holds the delimiter, the
\* quote character or a line break.
NeedsQuotes(field) ==
    \E k \in 1..Len(field) : field[k] \in {Comma, Quote, NewLine, "\r"}

RECURSIVE DoubleQuotes(_)
DoubleQuotes(field) ==
    IF field = <<>> THEN <<>>
    ELSE (IF Head(field) = Quote THEN <<Quote, Quote>> ELSE <<Head(field)>>)
         \o DoubleQuotes(Tail(field))

\* A field written as it is, never quoted.
WriteFieldRaw(field) == field

WriteField(field) ==
    IF NeedsQuotes(field) THEN <<Quote>> \o DoubleQuotes(field) \o <<Quote>>
    ELSE field

\* Writer::write_record: the fields separated by "," and ended by "\n".
RECURSIVE JoinFields(_)
JoinFields(fields) ==
    IF Len(fields) = 1 THEN WriteField(fields[1])
    ELSE WriteField(Head(fields)) \o <<Comma>> \o JoinFields(Tail(fields))

WriteRecord(fields) == JoinFields(fields) \o <<NewLine>>

\* ------------------------------------------------------------ the programs

VARIABLES
    variant,    \* the program that runs: "daily" (main.rs), "weekly" (main copy.rs)
    store,      \* the rows of table attendance, in rowid order
    pc,         \* get_report's position: "idle", "loop" or "done"
    records,    \* get_report's fetched rows
    idx,        \* get_report's loop position in records
    counts,     \* get_report's daily_counts / weekly_counts
    resp        \* the last HTTP response

vars == <<variant, store, pc, records, idx, counts, resp>>

Present == <<"P", "r", "e", "s", "e", "n", "t">>
Absent == <<"A", "b", "s", "e", "n", "t">>
Late == <<"L", "a", "t", "e">>
NotApplicable == <<"N", ",", "A">>

HeaderRow == <<<<"S", "t", "u", "d", "e", "n", "t", " ", "I", "D">>, <<"D", "a", "t", "e">>, <<"S", "t", "a", "t", "u", "s">>>>

\* struct DailyReport / struct WeeklyReport.  The counters are i32; a table of
\* at most MaxStore or MaxRows rows keeps them far below 2^31.
DailyEntry(key, p, a) == [date |-> key, present_count |-> p, absent_count |-> a]

WeeklyEntry(key, p) == [week |-> key, present_count |-> p]

EntryKey(v, entry) == IF v = "daily" THEN entry.date ELSE entry.week

\* A lookup that never finds the entry.
FindEntryNever(v, cs, key) == 0

\* iter_mut().find(|r| r.date == key): the first entry carrying the key, 0 if none.
FindEntry(v, cs, key) ==
    IF \E k \in 1..Len(cs) : EntryKey(v, cs[k]) = key
    THEN CHOOSE k \in 1..Len(cs) :
            /\ EntryKey(v, cs[k]) = key
            /\ \A j \in 1..(k - 1) : EntryKey(v, cs[j]) # key
    ELSE 0

\* A new entry that forgets to count the record that created it.
FirstCountZero(status, counted) == 0

\* if record.status == "Present" { 1 } else { 0 }: a new entry's counter.
FirstCount(status, counted) == IF status = counted THEN 1 ELSE 0

\* An increment that takes every status but "Present" for an absence.
DailyIncrementElse(report, status) ==
    IF status = Present THEN [report EXCEPT !.present_count = @ + 1]
    ELSE [report EXCEPT !.absent_count = @ + 1]

\* match record.status.as_str() { "Present" => .., "Absent" => .., _ => () }
DailyIncrement(report, status) ==
    IF status = Present THEN [report EXCEPT !.present_count = @ + 1]
    ELSE IF status = Absent THEN [report EXCEPT !.absent_count = @ + 1]
    ELSE report

\* if record.status == "Present" { entry.present_count += 1; }
WeeklyIncrement(entry, status) ==
    IF status = Present THEN [entry EXCEPT !.present_count = @ + 1] ELSE entry

\* A new entry put in front of the others.
PushFront(cs, entry) == <<entry>> \o cs

\* daily_counts.push(..) / weekly_counts.push(..)
Push(cs, entry) == Append(cs, entry)

\* One iteration of get_report's loop in main.rs.
DailyStep(cs, record) ==
    LET date == ParseDate(record.date)
    IN  IF ~date.ok THEN [abort |-> TRUE, counts |-> cs]
        ELSE LET formatted_date == FormatDaily(date)
                 k == FindEntry("daily", cs, formatted_date)
             IN  IF k # 0
                 THEN [abort |-> FALSE,
                       counts |-> [cs EXCEPT ![k] = DailyIncrement(@, record.status)]]
                 ELSE [abort |-> FALSE,
                       counts |-> Push(cs,
                         DailyEntry(formatted_date,
                                    FirstCount(record.status, Present),
                                    FirstCount(record.status, Absent)))]

\* One iteration of get_report's loop in main copy.rs.
WeeklyStep(cs, record) ==
    LET date == ParseDate(record.date)
    IN  IF ~date.ok THEN [abort |-> FALSE, counts |-> cs]
        ELSE LET week_key == FormatWeekly(date)
                 k == FindEntry("weekly", cs, week_key)
             IN  IF k # 0
                 THEN [abort |-> FALSE,
                       counts |-> [cs EXCEPT ![k] = WeeklyIncrement(@, record.status)]]
                 ELSE [abort |-> FALSE,
                       counts |-> Push(cs,
                         WeeklyEntry(week_key, FirstCount(record.status, Present)))]

\* A loop body that gives up on a date that does not parse, in both programs.
LoopBodyStrict(v, cs, record) ==
    IF ~ParseDate(record.date).ok THEN [abort |-> TRUE, counts |-> cs]
    ELSE IF v = "daily" THEN DailyStep(cs, record) ELSE WeeklyStep(cs, record)

\* A loop body that passes over a date that does not parse, in both programs.
LoopBodyLenient(v, cs, record) ==
    IF ~ParseDate(record.date).ok THEN [abort |-> FALSE, counts |-> cs]
    ELSE IF v = "daily" THEN DailyStep(cs, record) ELSE WeeklyStep(cs, record)

LoopBody(v, cs, record) ==
    IF v = "daily" THEN DailyStep(cs, record) ELSE WeeklyStep(cs, record)

\* ------------------------------------------------------------- responses

NoResp == [op |-> "none", code |-> 0, msg |-> "", json |-> <<>>, text |-> <<>>,
           request |-> <<>>]

\* HttpResponse::Ok().body("YouthSync API: ...")
IndexOk == [NoResp EXCEPT !.op = "index", !.code = 200, !.msg = "YouthSync API"]

\* HttpResponse::Ok().body("Attendance recorded"); request is the JSON payload
\* the response answers.
AttendanceOk(data) ==
    [NoResp EXCEPT !.op = "attendance", !.code = 200,
                   !.msg = "Attendance recorded", !.request = <<data>>]

\* HttpResponse::InternalServerError().body(format!("Error: {}", e))
StoreError(op) == [NoResp EXCEPT !.op = op, !.code = 500, !.msg = "Error"]

\* HttpResponse::InternalServerError().body(format!("Date parse error: {}", e))
DateParseError ==
    [NoResp EXCEPT !.op = "report", !.code = 500, !.msg = "Date parse error"]

\* HttpResponse::Ok().json(daily_counts)
ReportOk(cs) == [NoResp EXCEPT !.op = "report", !.code = 200, !.json = cs]

\* HttpResponse::Ok().content_type("text/csv").body(wtr.into_inner().unwrap())
ExportOk(csv) == [NoResp EXCEPT !.op = "export", !.code = 200, !.text = csv]

\* ------------------------------------------------------------- the table

\* The date and the status bound in each other's place.
InsertSwapped(table, data) ==
    Append(table, [student_id |-> data.student_id, date |-> data.status,
                   status |-> data.date])

\* INSERT INTO attendance (student_id, date, status) VALUES (?, ?, ?)
Insert(table, data) ==
    Append(table, [student_id |-> data.student_id, date |-> data.date,
                   status |-> data.status])

\* SELECT * FROM attendance, mapped row by row to struct Attendance.
FetchAll(table) ==
    [k \in 1..Len(table) |->
        [student_id |-> table[k].student_id, date |-> table[k].date,
         status |-> table[k].status]]

\* --------------------------------------------------------- whole handlers

\* get_report's loop over the fetched rows, from position k with counts cs.
RECURSIVE RunLoop(_, _, _, _)
RunLoop(v, recs, k, cs) ==
    IF k > Len(recs) THEN ReportOk(cs)
    ELSE LET r == LoopBody(v, cs, recs[k])
         IN  IF r.abort THEN DateParseError
             ELSE RunLoop(v, recs, k + 1, r.counts)

ReportResponse(v, recs) == RunLoop(v, recs, 1, <<>>)

\* export_csv's writer: the header record, then one record per row.
RECURSIVE WriteRows(_)
WriteRows(recs) ==
    IF recs = <<>> THEN <<>>
    ELSE WriteRecord(<<IntToString(Head(recs).student_id), Head(recs).date,
                       Head(recs).status>>)
         \o WriteRows(Tail(recs))

ExportCsvBody(recs) == WriteRecord(HeaderRow) \o WriteRows(recs)

\* ----------------------------------------------------------------- inputs

MaxStore == 3
MaxRows == 3

Date_2024_01_10 == <<"2", "0", "2", "4", "-", "0", "1", "-", "1", "0">>
Date_2024_01_17 == <<"2", "0", "2", "4", "-", "0", "1", "-", "1", "7">>
Date_2024_1_10 == <<"2", "0", "2", "4", "-", "1", "-", "1", "0">>
Date_2024_01_12 == <<"2", "0", "2", "4", "-", "0", "1", "-", "1", "2">>
Date_2024_13_40 == <<"2", "0", "2", "4", "-", "1", "3", "-", "4", "0">>

Variants == {"daily", "weekly"}

\* JSON payloads of POST /attendance.
Payloads ==
    [student_id : {1, 2},
     date : {Date_2024_01_10, Date_2024_01_17, Date_2024_13_40},
     status : {Present, Absent}]

\* Rows a table read by the daily get_report may hold.
DailyRows ==
    [student_id : {1, 2},
     date : {Date_2024_01_10, Date_2024_01_17, Date_2024_1_10},
     status : {Present, Absent}]

\* Rows a table read by get_report may hold.
Rows ==
    [student_id : {1},
     date : {Date_2024_01_10, Date_2024_1_10, Date_2024_01_12, Date_2024_13_40},
     status : {Present, Absent, Late}]

\* Rows a table read by export_csv may hold.
ExportRows ==
    [student_id : {1, 23},
     date : {Date_2024_01_10, Date_2024_13_40},
     status : {Present, NotApplicable}]

RECURSIVE SeqsUpTo(_, _)
SeqsUpTo(S, n) ==
    IF n = 0 THEN {<<>>}
    ELSE LET shorter == SeqsUpTo(S, n - 1)
         IN  shorter \cup {Append(q, x) : q \in {t \in shorter : Len(t) = n - 1}, x \in S}

\* ---------------------------------------------------------------- service

Init ==
    /\ variant \in Variants
    /\ store = <<>>
    /\ pc = "idle"
    /\ records = <<>>
    /\ idx = 1
    /\ counts = <<>>
    /\ resp = NoResp

\* GET /
Index ==
    /\ resp' = IndexOk
    /\ UNCHANGED <<variant, store, pc, records, idx, counts>>

\* POST /attendance, the INSERT succeeding.
AddAttendance(data) ==
    /\ Len(store) < MaxStore
    /\ store' = Insert(store, data)
    /\ resp' = AttendanceOk(data)
    /\ UNCHANGED <<variant, pc, records, idx, counts>>

\* POST /attendance, the INSERT failing.
AddAttendanceErr ==
    /\ resp' = StoreError("attendance")
    /\ UNCHANGED <<variant, store, pc, records, idx, counts>>

\* GET /report, the SELECT succeeding: the whole handler.
GetReport ==
    /\ resp' = ReportResponse(variant, FetchAll(store))
    /\ UNCHANGED <<variant, store, pc, records, idx, counts>>

\* GET /report, the SELECT failing.
GetReportErr ==
    /\ resp' = StoreError("report")
    /\ UNCHANGED <<variant, store, pc, records, idx, counts>>

\* GET /export, the SELECT succeeding.
ExportCsv ==
    /\ resp' = ExportOk(ExportCsvBody(FetchAll(store)))
    /\ UNCHANGED <<variant, store, pc, records, idx, counts>>

\* GET /export, the SELECT failing.
ExportCsvErr ==
    /\ resp' = StoreError("export")
    /\ UNCHANGED <<variant, store, pc, records, idx, counts>>

Next ==
    \/ Index
    \/ \E data \in Payloads : AddAttendance(data)
    \/ AddAttendanceErr
    \/ GetReport
    \/ GetReportErr
    \/ ExportCsv
    \/ ExportCsvErr

Spec == Init /\ [][Next]_vars

\* ------------------------------------------- get_report, one step at a time

\* The SELECT has returned the rows of a table that already holds data.
InitLoop ==
    /\ variant \in Variants
    /\ store \in SeqsUpTo(Rows, MaxRows)
    /\ pc = "loop"
    /\ records = FetchAll(store)
    /\ idx = 1
    /\ counts = <<>>
    /\ resp = NoResp

\* for record in records { ... }: one iteration.
LoopStep ==
    /\ pc = "loop"
    /\ idx <= Len(records)
    /\ LET r == LoopBody(variant, counts, records[idx])
       IN  IF r.abort
           THEN /\ pc' = "done"
                /\ resp' = DateParseError
                /\ UNCHANGED <<idx, counts>>
           ELSE /\ counts' = r.counts
                /\ idx' = idx + 1
                /\ UNCHANGED <<pc, resp>>
    /\ UNCHANGED <<variant, store, records>>

\* The loop is over: HttpResponse::Ok().json(counts).
LoopExit ==
    /\ pc = "loop"
    /\ idx > Len(records)
    /\ pc' = "done"
    /\ resp' = ReportOk(counts)
    /\ UNCHANGED <<variant, store, records, idx, counts>>

NextLoop == LoopStep \/ LoopExit

SpecLoop == InitLoop /\ [][NextLoop]_vars

\* ------------------------------------------ export_csv over a filled table

InitExport ==
    /\ variant \in Variants
    /\ store \in SeqsUpTo(ExportRows, MaxRows)
    /\ pc = "idle"
    /\ records = <<>>
    /\ idx = 1
    /\ counts = <<>>
    /\ resp = NoResp

NextExport == ExportCsv \/ ExportCsvErr

SpecExport == InitExport /\ [][NextExport]_vars

\* --------------------------------- the daily get_report over a filled table

InitDaily ==
    /\ variant = "daily"
    /\ store \in SeqsUpTo(DailyRows, MaxRows)
    /\ pc = "idle"
    /\ records = <<>>
    /\ idx = 1
    /\ counts = <<>>
    /\ resp = NoResp

NextDaily == GetReport \/ GetReportErr

SpecDaily == InitDaily /\ [][NextDaily]_vars

\* ================================================================ claims

ValidDate(record) == ParseDate(record.date).ok

\* The period key get_report gives a record whose date parses.
RecordKey(v, record) ==
    IF v = "daily" THEN FormatDaily(ParseDate(record.date))
    ELSE FormatWeekly(ParseDate(record.date))

CountOf(recs, status) ==
    Cardinality({k \in 1..Len(recs) : ValidDate(recs[k]) /\ recs[k].status = status})

RECURSIVE SumPresent(_)
SumPresent(cs) ==
    IF cs = <<>> THEN 0 ELSE Head(cs).present_count + SumPresent(Tail(cs))

RECURSIVE SumAbsent(_)
SumAbsent(cs) ==
    IF cs = <<>> THEN 0 ELSE Head(cs).absent_count + SumAbsent(Tail(cs))

ReportDone == pc = "done" /\ resp.op = "report" /\ resp.code = 200

AllDatesValid == \A k \in 1..Len(records) : ValidDate(records[k])

SomeDateMalformed == \E k \in 1..Len(records) : ~ValidDate(records[k])

\* C1: when every fetched date parses, the present counts of the returned
\* report add up to the number of "Present" records, and in the daily report
\* the absent counts add up to the number of "Absent" records.
C1_CountsAddUp ==
    (ReportDone /\ AllDatesValid) =>
        /\ SumPresent(resp.json) = CountOf(records, Present)
        /\ variant = "daily" => SumAbsent(resp.json) = CountOf(records, Absent)

C1_Witness ==
    /\ ReportDone /\ AllDatesValid
    /\ variant = "daily"
    /\ Len(records) = MaxRows
    /\ Len(resp.json) = 2
    /\ CountOf(records, Present) = 2
    /\ CountOf(records, Absent) = 1

\* ISO 8601 week of a calendar date: <<week-year, week number>>.
DayOfYear(date) ==
    LET RECURSIVE Before(_)
        Before(m) == IF m = 1 THEN 0
                     ELSE Before(m - 1) + DaysInMonth(date.year, m - 1)
    IN  Before(date.month) + date.day

\* Monday = 1 .. Sunday = 7; 0001-01-01 is a Monday.
WeekDay(date) ==
    LET p == date.year - 1
        n == 365 * p + (p \div 4) - (p \div 100) + (p \div 400) + DayOfYear(date)
    IN  ((n - 1) % 7) + 1

WeeksInYear(y) ==
    LET jan1 == WeekDay([year |-> y, month |-> 1, day |-> 1])
    IN  IF jan1 = 4 \/ (IsLeap(y) /\ jan1 = 3) THEN 53 ELSE 52

IsoWeek(date) ==
    LET w == (DayOfYear(date) - WeekDay(date) + 10) \div 7
    IN  IF w < 1 THEN <<date.year - 1, WeeksInYear(date.year - 1)>>
        ELSE IF w > WeeksInYear(date.year) THEN <<date.year + 1, 1>>
        ELSE <<date.year, w>>

\* C2: in the weekly report two records with valid dates are counted in the
\* same entry exactly when their dates have the same ISO week and week-year.
C2_GroupedByIsoWeek ==
    (ReportDone /\ variant = "weekly") =>
        \A i, j \in 1..Len(records) :
            (ValidDate(records[i]) /\ ValidDate(records[j])) =>
                ((FindEntry(variant, resp.json, RecordKey(variant, records[i]))
                    = FindEntry(variant, resp.json, RecordKey(variant, records[j])))
                 <=> (IsoWeek(ParseDate(records[i].date))
                        = IsoWeek(ParseDate(records[j].date))))

\* The fetched rows without those whose date does not parse.
RECURSIVE WellFormed(_)
WellFormed(recs) ==
    IF recs = <<>> THEN <<>>
    ELSE (IF ValidDate(Head(recs)) THEN <<Head(recs)>> ELSE <<>>)
         \o WellFormed(Tail(recs))

\* C3 as claimed: with a malformed date among the fetched rows, get_report
\* still answers 200 with the summaries of the well-formed rows.
C3_MalformedSkipped ==
    (pc = "done" /\ SomeDateMalformed) =>
        resp = ReportResponse(variant, WellFormed(records))

\* C3 as amended: the weekly get_report answers 200 with the summaries of the
\* well-formed rows wherever the malformed ones sit; the daily get_report
\* answers 500 with no summaries as soon as one fetched date does not parse.
C3_SkippedWeeklyAbortedDaily ==
    (pc = "done" /\ SomeDateMalformed) =>
        IF variant = "weekly"
        THEN /\ resp.code = 200
             /\ resp = ReportResponse(variant, WellFormed(records))
        ELSE /\ resp.code = 500
             /\ resp.json = <<>>

C3_Witness ==
    /\ pc = "done"
    /\ variant = "weekly"
    /\ Len(records) = MaxRows
    /\ ~ValidDate(records[2]) /\ ValidDate(records[1]) /\ ValidDate(records[3])
    /\ Len(resp.json) = 2

NoDuplicateKeys(v, cs) ==
    \A i, j \in 1..Len(cs) : EntryKey(v, cs[i]) = EntryKey(v, cs[j]) => i = j

\* C4: at every point of the loop and in the returned report no two entries
\* carry the same period key.
C4_OneEntryPerKey ==
    /\ NoDuplicateKeys(variant, counts)
    /\ NoDuplicateKeys(variant, resp.json)

C4_Witness ==
    /\ ReportDone
    /\ Len(records) = MaxRows
    /\ records[1].date = Date_2024_01_10
    /\ records[2].date = Date_2024_01_12
    /\ records[3].date = Date_2024_1_10
    /\ Len(resp.json) = 2

\* The keys of the rows, each in a one-element sequence, <<>> for a row whose
\* date does not parse.
KeysOf(v, recs) ==
    [k \in 1..Len(recs) |->
        IF ValidDate(recs[k]) THEN <<RecordKey(v, recs[k])>> ELSE <<>>]

\* The position of the first row that maps to the key, 0 if none does.
FirstSeen(keys, key) ==
    LET hits == {k \in 1..Len(keys) : keys[k] = <<key>>}
    IN  IF hits = {} THEN 0 ELSE CHOOSE k \in hits : \A h \in hits : k <= h

InFirstSeenOrder(v, recs, cs) ==
    LET keys == KeysOf(v, recs)
        first == [a \in 1..Len(cs) |-> FirstSeen(keys, EntryKey(v, cs[a]))]
    IN  /\ \A a \in 1..Len(cs) : first[a] # 0
        /\ \A a \in 1..(Len(cs) - 1) : first[a] < first[a + 1]

\* C5: after every iteration the entries stand in the order in which their
\* keys first occur among the rows read so far (so a later row never moves
\* an entry), and the returned report is in that order over all fetched rows.
C5_FirstSeenOrder ==
    /\ InFirstSeenOrder(variant, SubSeq(records, 1, idx - 1), counts)
    /\ ReportDone => InFirstSeenOrder(variant, records, resp.json)

C5_Witness ==
    /\ ReportDone
    /\ Len(records) = MaxRows
    /\ records[1].date = Date_2024_01_12
    /\ records[2].date = Date_2024_01_10
    /\ records[3].date = Date_2024_01_12
    /\ records[2].status = Present /\ records[1].status = Absent
    /\ records[3].status = Absent
    /\ Len(resp.json) = 2
    /\ EntryKey(variant, resp.json[1]) = RecordKey(variant, records[1])

UnknownStatus(record) == record.status \notin {Present, Absent}

ZeroEntry(v, key) == IF v = "daily" THEN DailyEntry(key, 0, 0) ELSE WeeklyEntry(key, 0)

\* C6: a row with a valid date and a status other than "Present" or "Absent"
\* is no error and counts nothing: the first row of its key creates the entry
\* with every counter 0, a later one leaves the entries as they are.
C6_UnknownStatusStep ==
    (/\ pc = "loop" /\ idx <= Len(records)
     /\ ValidDate(records[idx]) /\ UnknownStatus(records[idx]))
    => /\ pc' = "loop"
       /\ resp' = resp
       /\ LET key == RecordKey(variant, records[idx])
          IN  IF \E k \in 1..Len(counts) : EntryKey(variant, counts[k]) = key
              THEN counts' = counts
              ELSE counts' = Append(counts, ZeroEntry(variant, key))

C6_UnknownStatusCountsNothing == [][C6_UnknownStatusStep]_vars

C6_Witness ==
    /\ pc = "loop" /\ idx = 3
    /\ UnknownStatus(records[1]) /\ ValidDate(records[1])
    /\ UnknownStatus(records[2]) /\ ValidDate(records[2])
    /\ records[1].date = records[2].date
    /\ counts = <<ZeroEntry(variant, RecordKey(variant, records[1]))>>

\* The calendar date rendered MM-DD-YYYY, two, two and four digits.
RenderMMDDYYYY(date) ==
    <<DigitChars[(date.month \div 10) + 1], DigitChars[(date.month % 10) + 1], "-",
      DigitChars[(date.day \div 10) + 1], DigitChars[(date.day % 10) + 1], "-",
      DigitChars[(date.year \div 1000) + 1], DigitChars[((date.year \div 100) % 10) + 1],
      DigitChars[((date.year \div 10) % 10) + 1], DigitChars[(date.year % 10) + 1]>>

RowsOn(table, date, status) ==
    Cardinality({k \in 1..Len(table) :
                    ParseDate(table[k].date) = date /\ table[k].status = status})

Scenario ==
    <<[student_id |-> 1, date |-> Date_2024_01_10, status |-> Present],
      [student_id |-> 2, date |-> Date_2024_01_10, status |-> Absent],
      [student_id |-> 1, date |-> Date_2024_01_17, status |-> Present]>>

ScenarioReport ==
    <<[date |-> <<"0", "1", "-", "1", "0", "-", "2", "0", "2", "4">>, present_count |-> 1, absent_count |-> 1],
      [date |-> <<"0", "1", "-", "1", "7", "-", "2", "0", "2", "4">>, present_count |-> 1, absent_count |-> 0]>>

DailyReportDone == variant = "daily" /\ resp.op = "report" /\ resp.code = 200

C8_Step ==
    /\ \A k \in 1..Len(store) : k <= Len(store') /\ store'[k] = store[k]
    /\ IF resp'.op = "attendance" /\ resp'.code = 200
       THEN /\ Len(store') = Len(store) + 1
            /\ store'[Len(store')].student_id = resp'.request[1].student_id
            /\ store'[Len(store')].date = resp'.request[1].date
            /\ store'[Len(store')].status = resp'.request[1].status
            /\ FetchAll(store')[Len(store')] = resp'.request[1]
       ELSE store' = store

C8_StoredRowsStay == [][C8_Step]_vars

C8_Witness ==
    /\ Len(store) = MaxStore
    /\ resp.op = "export" /\ resp.code = 200
    /\ store[1] # store[2]

\* RFC 4180 reading of CSV text.  A position is inside a quoted field when
\* an odd number of quote characters precedes it.
InsideQuotes(t, p) == Cardinality({k \in 1..(p - 1) : t[k] = Quote}) % 2 = 1

\* The positions of character c that lie outside every quoted field.
Breaks(t, c) == {p \in 1..Len(t) : t[p] = c /\ ~InsideQuotes(t, p)}

\* The pieces of t[from..to] between the positions in cuts.
Pieces(t, from, to, cuts) ==
    LET inner == {p \in cuts : p >= from /\ p <= to}
        nth(n) == IF n = 0 THEN from - 1
                  ELSE IF n = Cardinality(inner) + 1 THEN to + 1
                  ELSE CHOOSE p \in inner : Cardinality({q \in inner : q < p}) = n - 1
    IN  [n \in 1..(Cardinality(inner) + 1) |->
            [i \in 1..(nth(n) - nth(n - 1) - 1) |-> t[nth(n - 1) + i]]]

\* A doubled quote inside a quoted field stands for one quote.
RECURSIVE Undouble(_)
Undouble(f) ==
    IF f = <<>> THEN <<>>
    ELSE IF Len(f) >= 2 /\ f[1] = Quote /\ f[2] = Quote
    THEN <<Quote>> \o Undouble(SubSeq(f, 3, Len(f)))
    ELSE <<Head(f)>> \o Undouble(Tail(f))

Unquote(f) ==
    IF Len(f) >= 2 /\ f[1] = Quote /\ f[Len(f)] = Quote
    THEN Undouble(SubSeq(f, 2, Len(f) - 1))
    ELSE f

\* The records of CSV text that ends in a line break, each a sequence of fields.
ReadCsv(t) ==
    LET lines == Pieces(t, 1, Len(t) - 1, Breaks(t, NewLine))
    IN  [n \in 1..Len(lines) |->
            LET fields == Pieces(lines[n], 1, Len(lines[n]), Breaks(lines[n], Comma))
            IN  [k \in 1..Len(fields) |-> Unquote(fields[k])]]

\* The decimal text of a student_id, read back as a number.
ReadInt(t) ==
    IF t # <<>> /\ Head(t) = "-" THEN 0 - NumVal(t, 2, Len(t) - 1)
    ELSE NumVal(t, 1, Len(t))

ExportDone == resp.op = "export" /\ resp.code = 200

\* C9: a successful export of a table of N rows is CSV of N+1 records: the
\* header, then for each stored row, in table order, its student_id, date
\* and status, whatever the date and the status are.
C9_ExportHasEveryRow ==
    ExportDone =>
        LET rows == ReadCsv(resp.text)
        IN  /\ Len(rows) = Len(store) + 1
            /\ rows[1] = HeaderRow
            /\ \A k \in 1..Len(store) :
                 /\ Len(rows[k + 1]) = 3
                 /\ ReadInt(rows[k + 1][1]) = store[k].student_id
                 /\ rows[k + 1][2] = store[k].date
                 /\ rows[k + 1][3] = store[k].status

C9_Witness ==
    /\ ExportDone
    /\ Len(store) = MaxRows
    /\ store[1].status = NotApplicable /\ store[1].student_id = 23
    /\ store[2].date = Date_2024_13_40 /\ store[2].status = Present
    /\ store[3] = store[1]

StoreHasMalformed == \E k \in 1..Len(store) : ~ValidDate(store[k])

\* C10: in the daily program a POST stores a row whatever its date; while the
\* table holds a row whose date does not parse (rows are never removed),
\* every GET /report answers 500 with no summaries, whatever else is stored,
\* and GET /export fails only on a store error.
C10_MalformedRowBlocksReport ==
    variant = "daily" =>
        /\ (resp.op = "report" /\ StoreHasMalformed) =>
              (resp.code = 500 /\ resp.json = <<>>)
        /\ (resp.op = "attendance" /\ resp.code = 200) =>
              store[Len(store)] = resp.request[1]
        /\ resp.op = "export" =>
              (resp.code = 200 \/ resp = StoreError("export"))

C10_Witness ==
    /\ variant = "daily"
    /\ Len(store) = MaxStore
    /\ ~ValidDate(store[1]) /\ ValidDate(store[2]) /\ ValidDate(store[3])
    /\ resp = DateParseError

====
